---- MODULE Spec2Model ----
(***************************************************************************)
(* Model of the file transfer code of egnyte/resources.py:                 *)
(*   File.upload, File._chunked_upload, File.download and FileDownload.    *)
(*                                                                         *)
(* One caller drives one File object, one call at a time.  The HTTP server *)
(* and the requests response object are the environment: every response   *)
(* (status, checksum header, upload-id header) and every outcome of a call *)
(* delegated to the response is chosen nondeterministically.               *)
(*                                                                         *)
(* Sizes are counted in blocks of bytes; one block stands for any fixed    *)
(* number of bytes (50 MiB in the examples of the specification).          *)
(***************************************************************************)
EXTENDS Integers, Sequences, FiniteSets, TLC

\* ------------------------------------------------------------------ bounds
MaxSize == 5          \* largest content size offered to upload, in blocks
MaxChunkSize == 3     \* largest configured File._upload_chunk_size, in blocks
MaxRetries == 3       \* largest configured File._upload_chunk_retries
MaxBody == 2          \* largest number of blocks a download body holds
MaxCloseCalls == 3    \* cap on the counter of response.close() calls

ChunkSizes == 2..MaxChunkSize
RetrySettings == -1..MaxRetries
Sizes == 0..MaxSize
Statuses == {"ok", "fail"}
UploadIds == {"idA", "idB"}
\* values of the content-length header of a download response, as strings of
\* decimal digits; <<>> is a response without the header
ContentLengths ==
    {<<>>} \cup {<<d>> : d \in 0..MaxBody} \cup {<<1, MaxBody>>}

VARIABLES
    upload_chunk_size,      \* File._upload_chunk_size (threshold and chunk size)
    upload_chunk_retries,   \* File._upload_chunk_retries
    pc,                     \* position of the upload call
    size,                   \* upload: size
    chunks,                 \* _chunked_upload: chunks
    chunk_number,           \* _chunked_upload: chunk_number
    headers,                \* _chunked_upload: headers
    retries,                \* _chunked_upload: retries
    r,                      \* upload/_chunked_upload: r, the last response
    our_sha,                \* upload/_chunked_upload: our_sha
    result,                 \* how the upload call ended
    errctx,                 \* the second argument of the raised ChecksumError
    req,                    \* the last request handed to self._client.POST
    nreq,                   \* number of POSTs issued by the current upload call
    tries,                  \* per chunk, number of POSTs issued for it
    mism,                   \* per chunk, number of responses whose checksum differed
    seen,                   \* "fail" / "no_sha": some response of this call had a
                            \* non-success status / no checksum header
    verified,               \* per chunk, verdict on its most recent response
    chunk1_r,               \* most recent response received for chunk 1
    first,                  \* the first attempt for the chunk being sent: the
                            \* request and the digest compared after it
    prev_id,                \* upload id held by the headers of the chunked upload
                            \* call made just before this call, "none" otherwise
    response,               \* FileDownload.response
    dl                      \* the last download / stream operation and its outcome

upload_vars == <<pc, size, chunks, chunk_number, headers, retries, r, result,
                 errctx, req, nreq, tries, mism, seen, verified, chunk1_r,
                 our_sha, first, prev_id>>
config_vars == <<upload_chunk_size, upload_chunk_retries>>
download_vars == <<response, dl>>
vars == <<upload_chunk_size, upload_chunk_retries, pc, size, chunks, chunk_number,
          headers, retries, r, result, errctx, req, nreq, tries, mism, seen,
          verified, chunk1_r, our_sha, first, prev_id, response, dl>>

\* ----------------------------------------------------------------- helpers
Max(a, b) == IF a >= b THEN a ELSE b
Min(a, b) == IF a <= b THEN a ELSE b

\* headers = {} (resources.py:85); an absent key is 0, -1, FALSE or "none"
EmptyHeaders ==
    [chunk_num |-> 0, content_length |-> -1, last_chunk |-> FALSE, upload_id |-> "none"]

NoChunk == [position |-> 0, size |-> 0]
NoResponse == [status |-> "none", sha |-> <<>>, upload_id |-> "none"]
NoRequest == [url |-> "none", headers |-> EmptyHeaders, chunk |-> NoChunk]
NoFirst == [req |-> NoRequest, sha |-> <<>>]
NoContext == [chunk_number |-> 0, start_position |-> -1]
NoStream == [status |-> "none", content_length |-> <<>>, closed |-> FALSE, remaining |-> 0]
NoOp == [op |-> "none", status |-> "none", gets |-> 0, outcome |-> "none", value |-> -1,
         forwarded |-> FALSE,
         was_closed |-> FALSE, close_calls |-> 0, written |-> 0]

\* base.split_file_into_chunks(fp, size, chunk_size): chunks of chunk_size in
\* position order, the last one possibly smaller
RECURSIVE split_file_into_chunks(_, _, _)
split_file_into_chunks(position, file_size, chunk_size) ==
    IF position >= file_size THEN <<>>
    ELSE LET sz == Min(chunk_size, file_size - position)
         IN  <<[position |-> position, size |-> sz]>>
             \o split_file_into_chunks(position + sz, file_size, chunk_size)

\* chunk.sha.hexdigest(): the digest of the bytes of [position, position+size)
hexdigest(chunk) == <<chunk.position, chunk.size>>

\* chunk.sha.hexdigest() as read after the attempt-th transmission of the
\* chunk: the digest reflects exactly the bytes of the chunk's range, however
\* often the chunk has been sent
DigestAfter_cumulative(chunk, attempt) == <<chunk.position, chunk.size * attempt>>
DigestAfter(chunk, attempt) == hexdigest(chunk)

\* a digest of other bytes than the chunk's
CorruptSha(chunk) == <<chunk.position, chunk.size, 1>>

\* the values the checksum response header can take for a request carrying
\* chunk; <<>> is a response without the header
ServerShas(chunk) == {hexdigest(chunk), CorruptSha(chunk), <<>>}

\* exc.default.check_response(r): raises unless the status is a success
check_response(resp) == resp.status = "ok"

\* ----------------------------------------------------------------- upload
\* resources.py:59  if size < self._upload_chunk_size
IsSingleShot_le(sz) == sz <= upload_chunk_size
IsSingleShot(sz) == sz < upload_chunk_size

\* resources.py:63-68, the outcome of the single request
SingleOutcome_checksum_first(resp, chunk) ==
    IF resp.sha = <<>> THEN "KeyError"
    ELSE IF resp.sha # hexdigest(chunk) THEN "ChecksumError"
    ELSE IF ~check_response(resp) THEN "TransferFailed"
    ELSE "ok"
SingleOutcome(resp, chunk) ==
    IF ~check_response(resp) THEN "TransferFailed"
    ELSE IF resp.sha = <<>> THEN "KeyError"
    ELSE IF resp.sha # hexdigest(chunk) THEN "ChecksumError"
    ELSE "ok"

ResetDownload ==
    /\ response' = NoStream
    /\ dl' = NoOp

\* File.upload, the branch of one request (resources.py:59-68)
upload_single(sz, status) ==
    /\ pc \in {"idle", "done"}
    /\ IsSingleShot(sz)
    /\ LET chunk == [position |-> 0, size |-> sz]
       IN  \E sha \in ServerShas(chunk) :
             LET resp == [status |-> status, sha |-> sha, upload_id |-> "none"]
             IN  /\ req' = [url |-> "fs-content",
                            headers |-> [EmptyHeaders EXCEPT !.content_length = sz],
                            chunk |-> chunk]
                 /\ r' = resp
                 /\ our_sha' = IF SingleOutcome(resp, chunk) \in {"ok", "ChecksumError"}
                               THEN hexdigest(chunk) ELSE <<>>
                 /\ result' = SingleOutcome(resp, chunk)
    /\ size' = sz
    /\ nreq' = 1
    /\ pc' = "done"
    /\ errctx' = NoContext
    /\ chunks' = <<>>
    /\ chunk_number' = 0
    /\ headers' = EmptyHeaders
    /\ retries' = 0
    /\ tries' = <<>>
    /\ mism' = <<>>
    /\ seen' = {}
    /\ verified' = <<>>
    /\ chunk1_r' = NoResponse
    /\ first' = NoFirst
    /\ prev_id' = "none"
    /\ ResetDownload
    /\ UNCHANGED config_vars

\* File.upload, the else branch, and _chunked_upload up to the for loop
\* (resources.py:69-70, 82-85)
\* resources.py:85  headers = {}: a dict of this call, whatever an earlier call
\* left behind
InitialHeaders_kept(h) == h
InitialHeaders(h) == EmptyHeaders

upload_chunked(sz) ==
    /\ pc \in {"idle", "done"}
    /\ ~IsSingleShot(sz)
    /\ size' = sz
    /\ chunks' = split_file_into_chunks(0, sz, upload_chunk_size)
    /\ headers' = InitialHeaders(headers)
    /\ prev_id' = headers.upload_id
    /\ our_sha' = <<>>
    /\ first' = NoFirst
    /\ chunk_number' = 1
    /\ pc' = "for"
    /\ retries' = 0
    /\ r' = NoResponse
    /\ result' = "none"
    /\ errctx' = NoContext
    /\ req' = NoRequest
    /\ nreq' = 0
    /\ tries' = [k \in 1..Len(chunks') |-> 0]
    /\ mism' = [k \in 1..Len(chunks') |-> 0]
    /\ seen' = {}
    /\ verified' = [k \in 1..Len(chunks') |-> "none"]
    /\ chunk1_r' = NoResponse
    /\ ResetDownload
    /\ UNCHANGED config_vars

\* resources.py:89-90  if chunk_number == chunk_count: headers['x-egnyte-last-chunk']
LastChunkHeader_early(h, n, chunk_count) ==
    IF n >= chunk_count - 1 THEN [h EXCEPT !.last_chunk = TRUE] ELSE h
LastChunkHeader(h, n, chunk_count) ==
    IF n = chunk_count THEN [h EXCEPT !.last_chunk = TRUE] ELSE h

\* resources.py:91  retries = max(self._upload_chunk_retries, 1)
RetryBudget_one_less == Max(upload_chunk_retries - 1, 1)
RetryBudget == Max(upload_chunk_retries, 1)

\* resources.py:87-88  headers['x-egnyte-chunk-num'], headers['content-length']
ChunkHeaders_nominal_size(h, n, chunk) ==
    [h EXCEPT !.chunk_num = n, !.content_length = upload_chunk_size]
ChunkHeaders(h, n, chunk) ==
    [h EXCEPT !.chunk_num = n, !.content_length = chunk.size]

\* the head of the for loop (resources.py:86-91)
chunk_begin ==
    /\ pc = "for"
    /\ LET chunk == chunks[chunk_number]
           h1 == ChunkHeaders(headers, chunk_number, chunk)
       IN  headers' = LastChunkHeader(h1, chunk_number, Len(chunks))
    /\ retries' = RetryBudget
    /\ pc' = "while"
    /\ UNCHANGED <<size, chunks, chunk_number, r, result, errctx, req, nreq, tries,
                   mism, seen, verified, chunk1_r, our_sha, first, prev_id>>
    /\ UNCHANGED config_vars
    /\ UNCHANGED download_vars

\* resources.py:96-98  on a match break, else retries -= 1
RetriesAfter_always_decrement(n, matched) == n - 1
RetriesAfter(n, matched) == IF matched THEN n ELSE n - 1

\* resources.py:92  while retries > 0
LoopsAgain_ge(n) == n >= 0
LoopsAgain(n) == n > 0

\* one pass of the while loop: one POST and the comparison (resources.py:92-98)
chunk_post(status, id) ==
    /\ pc = "while"
    /\ LET chunk == chunks[chunk_number]
       IN  \E sha \in ServerShas(chunk) :
             LET resp == [status |-> status, sha |-> sha, upload_id |-> id]
                 sent == [url |-> "fs-content-chunked", headers |-> headers,
                          chunk |-> chunk]
                 digest == DigestAfter(chunk, tries[chunk_number] + 1)
                 matched == sha = digest
                 left == RetriesAfter(retries, matched)
             IN  /\ req' = sent
                 /\ r' = resp
                 /\ our_sha' = IF sha = <<>> THEN our_sha ELSE digest
                 /\ first' = IF tries[chunk_number] = 0
                             THEN [req |-> sent,
                                   sha |-> IF sha = <<>> THEN <<>> ELSE digest]
                             ELSE first
                 /\ nreq' = nreq + 1
                 /\ tries' = [tries EXCEPT ![chunk_number] = @ + 1]
                 /\ mism' = IF sha # <<>> /\ ~matched
                            THEN [mism EXCEPT ![chunk_number] = @ + 1] ELSE mism
                 /\ seen' = seen \cup (IF status = "fail" THEN {"fail"} ELSE {})
                                 \cup (IF sha = <<>> THEN {"no_sha"} ELSE {})
                 /\ verified' = [verified EXCEPT ![chunk_number] =
                        IF matched /\ status = "ok" THEN "ok" ELSE "bad"]
                 /\ chunk1_r' = IF chunk_number = 1 THEN resp ELSE chunk1_r
                 /\ IF sha = <<>>
                    THEN \* r.headers[...] raises KeyError
                         /\ pc' = "done"
                         /\ result' = "KeyError"
                         /\ retries' = retries
                    ELSE /\ retries' = left
                         /\ result' = result
                         /\ pc' = IF ~matched /\ LoopsAgain(left)
                                  THEN "while" ELSE "after"
    /\ UNCHANGED <<size, chunks, chunk_number, headers, errctx, prev_id>>
    /\ UNCHANGED config_vars
    /\ UNCHANGED download_vars

\* resources.py:102-103  if chunk_number == 1: headers['x-egnyte-upload-id'] = ...
CapturesUploadId_every_chunk(n) == n >= 1
CapturesUploadId(n) == n = 1

\* resources.py:99-101, the verdict after the while loop
AfterLoopOutcome_status_first(n, resp) ==
    IF ~check_response(resp) THEN "TransferFailed"
    ELSE IF n = 0 THEN "ChecksumError"
    ELSE "ok"
AfterLoopOutcome_swallow(n, resp) ==
    IF ~check_response(resp) THEN "TransferFailed" ELSE "ok"
AfterLoopOutcome_no_status_check(n, resp) ==
    IF n = 0 THEN "ChecksumError" ELSE "ok"
AfterLoopOutcome(n, resp) ==
    IF n = 0 THEN "ChecksumError"
    ELSE IF ~check_response(resp) THEN "TransferFailed"
    ELSE "ok"

\* the rest of the for body and the step to the next chunk (resources.py:99-103)
chunk_after ==
    /\ pc = "after"
    /\ LET verdict == AfterLoopOutcome(retries, r)
           capture == verdict = "ok" /\ CapturesUploadId(chunk_number)
           outcome == IF capture /\ r.upload_id = "none" THEN "KeyError" ELSE verdict
       IN  /\ errctx' = IF outcome = "ChecksumError"
                        THEN [chunk_number |-> chunk_number,
                              start_position |-> chunks[chunk_number].position]
                        ELSE errctx
           /\ headers' = IF capture /\ outcome = "ok"
                         THEN [headers EXCEPT !.upload_id = r.upload_id]
                         ELSE headers
           /\ IF outcome # "ok"
              THEN /\ result' = outcome
                   /\ pc' = "done"
                   /\ chunk_number' = chunk_number
              ELSE IF chunk_number = Len(chunks)
              THEN /\ result' = "ok"
                   /\ pc' = "done"
                   /\ chunk_number' = chunk_number
              ELSE /\ result' = result
                   /\ pc' = "for"
                   /\ chunk_number' = chunk_number + 1
    /\ UNCHANGED <<size, chunks, retries, r, req, nreq, tries, mism, seen, verified,
                   chunk1_r, our_sha, first, prev_id>>
    /\ UNCHANGED config_vars
    /\ UNCHANGED download_vars

\* --------------------------------------------------------------- download
ResetUpload ==
    /\ pc' = "idle"
    /\ size' = 0
    /\ chunks' = <<>>
    /\ chunk_number' = 0
    /\ headers' = EmptyHeaders
    /\ retries' = 0
    /\ r' = NoResponse
    /\ result' = "none"
    /\ errctx' = NoContext
    /\ req' = NoRequest
    /\ nreq' = 0
    /\ tries' = <<>>
    /\ mism' = <<>>
    /\ seen' = {}
    /\ verified' = <<>>
    /\ chunk1_r' = NoResponse
    /\ our_sha' = <<>>
    /\ first' = NoFirst
    /\ prev_id' = "none"

\* resources.py:78  r = exc.default.check_response(self._client.GET(url, stream=True))
DownloadOutcome_unchecked(resp) == "stream"
DownloadOutcome(resp) == IF check_response(resp) THEN "stream" ELSE "TransferFailed"

\* File.download (resources.py:72-79) and FileDownload.__init__ (164-165);
\* content_length = <<>> is a response without the content-length header
download(status, content_length, body) ==
    /\ pc \in {"idle", "done"}
    /\ LET outcome == DownloadOutcome([status |-> status])
       IN  /\ response' = IF outcome = "stream"
                          THEN [status |-> status, content_length |-> content_length,
                                closed |-> FALSE, remaining |-> body]
                          ELSE NoStream
           /\ dl' = [NoOp EXCEPT !.op = "download", !.status = status, !.gets = 1,
                                 !.outcome = outcome]
    /\ ResetUpload
    /\ UNCHANGED config_vars

HasStream == response.status # "none"

\* the blocks a response still delivers: none once it is closed
Available(resp) == IF resp.closed THEN 0 ELSE resp.remaining

\* what a call forwarded to the requests response can do: return or raise
DelegatedOutcomes == {"returned", "raised"}

\* FileDownload.__len__ (resources.py:167-168)

\* int(s) for a string of decimal digits
RECURSIVE int(_)
int(s) ==
    IF Len(s) = 0 THEN 0
    ELSE 10 * int(SubSeq(s, 1, Len(s) - 1)) + s[Len(s)]

len ==
    /\ HasStream
    /\ dl' = [dl EXCEPT !.op = "len",
                        !.outcome = IF response.content_length = <<>>
                                    THEN "KeyError" ELSE "returned",
                        !.value = IF response.content_length = <<>>
                                  THEN -1 ELSE int(response.content_length),
                        !.forwarded = FALSE,
                        !.was_closed = response.closed,
                        !.written = 0]
    /\ UNCHANGED <<response>>
    /\ UNCHANGED upload_vars
    /\ UNCHANGED config_vars

\* self.response.close() (resources.py:177)
CloseResponse_toggle(resp) == [resp EXCEPT !.closed = ~@]
CloseResponse(resp) == [resp EXCEPT !.closed = TRUE]

\* FileDownload.close (resources.py:176-177)
close ==
    /\ HasStream
    /\ dl.close_calls < MaxCloseCalls
    /\ response' = CloseResponse(response)
    /\ dl' = [dl EXCEPT !.op = "close", !.outcome = "returned", !.value = -1,
                        !.forwarded = TRUE, !.was_closed = response.closed,
                        !.close_calls = @ + 1, !.written = 0]
    /\ UNCHANGED upload_vars
    /\ UNCHANGED config_vars

\* FileDownload.closed (resources.py:179-180); value 1 is True, 0 is False
closed ==
    /\ HasStream
    /\ dl' = [dl EXCEPT !.op = "closed", !.outcome = "returned",
                        !.value = IF response.closed THEN 1 ELSE 0,
                        !.forwarded = TRUE, !.was_closed = response.closed,
                        !.written = 0]
    /\ UNCHANGED <<response>>
    /\ UNCHANGED upload_vars
    /\ UNCHANGED config_vars

\* resources.py:188, 195, 198: a read or an iteration is handed to the response
\* whatever the state of the stream; taken blocks leave the body
Delegate(op, outcome, taken) ==
    /\ HasStream
    /\ taken <= Available(response)
    /\ outcome = "raised" => taken = 0
    /\ response' = [response EXCEPT !.remaining = @ - taken]
    /\ dl' = [dl EXCEPT !.op = op, !.outcome = outcome, !.value = taken,
                        !.forwarded = TRUE, !.was_closed = response.closed,
                        !.written = 0]
    /\ UNCHANGED upload_vars
    /\ UNCHANGED config_vars

\* FileDownload.read (resources.py:182-188)
read(outcome, amt) == Delegate("read", outcome, amt)

\* FileDownload.__iter__ (resources.py:190-195)
iter_lines(outcome, taken) == Delegate("iter_lines", outcome, taken)

\* FileDownload.iter_content (resources.py:197-198)
iter_content(outcome, taken) == Delegate("iter_content", outcome, taken)

\* resources.py:172  with closing(self): close runs on every way out of the block
ClosesAfter_success_only(fault) == fault = "none"
ClosesAfter(fault) == TRUE

\* FileDownload.write_to (resources.py:170-174).  fault is what goes wrong after
\* `written` blocks reached the sink: nothing, fp.write raising on the next
\* block, or the iteration raising.
write_to(fault, written) ==
    /\ HasStream
    /\ dl.close_calls < MaxCloseCalls
    /\ fault = "none" => written = Available(response)
    /\ fault = "sink" => written < Available(response)
    /\ fault = "iter" => written <= Available(response)
    /\ LET drained == [response EXCEPT !.remaining =
                         IF fault = "sink" THEN @ - (written + 1)
                         ELSE IF response.closed THEN @ ELSE @ - written]
       IN  response' = IF ClosesAfter(fault) THEN CloseResponse(drained) ELSE drained
    /\ dl' = [dl EXCEPT !.op = "write_to",
                        !.outcome = CASE fault = "none" -> "returned"
                                      [] fault = "sink" -> "sink_error"
                                      [] fault = "iter" -> "iter_error",
                        !.value = -1,
                        !.forwarded = TRUE,
                        !.was_closed = response.closed,
                        !.close_calls = IF ClosesAfter(fault) THEN @ + 1 ELSE @,
                        !.written = written]
    /\ UNCHANGED upload_vars
    /\ UNCHANGED config_vars

\* ------------------------------------------------------------------- Init
Init ==
    /\ upload_chunk_size \in ChunkSizes
    /\ upload_chunk_retries \in RetrySettings
    /\ pc = "idle"
    /\ size = 0
    /\ chunks = <<>>
    /\ chunk_number = 0
    /\ headers = EmptyHeaders
    /\ retries = 0
    /\ r = NoResponse
    /\ result = "none"
    /\ errctx = NoContext
    /\ req = NoRequest
    /\ nreq = 0
    /\ tries = <<>>
    /\ mism = <<>>
    /\ seen = {}
    /\ verified = <<>>
    /\ chunk1_r = NoResponse
    /\ our_sha = <<>>
    /\ first = NoFirst
    /\ prev_id = "none"
    /\ response = NoStream
    /\ dl = NoOp

Next ==
    \/ \E sz \in Sizes, status \in Statuses : upload_single(sz, status)
    \/ \E sz \in Sizes : upload_chunked(sz)
    \/ chunk_begin
    \/ \E status \in Statuses, id \in UploadIds \cup {"none"} : chunk_post(status, id)
    \/ chunk_after
    \/ \E status \in Statuses, content_length \in ContentLengths, body \in 0..MaxBody :
          download(status, content_length, body)
    \/ len
    \/ close
    \/ closed
    \/ \E outcome \in DelegatedOutcomes, amt \in 0..MaxBody : read(outcome, amt)
    \/ \E outcome \in DelegatedOutcomes, taken \in 0..MaxBody : iter_lines(outcome, taken)
    \/ \E outcome \in DelegatedOutcomes, taken \in 0..MaxBody : iter_content(outcome, taken)
    \/ \E fault \in {"none", "sink", "iter"}, written \in 0..MaxBody :
          write_to(fault, written)

Spec == Init /\ [][Next]_vars

\* a step of the upload call under way.  upload and _chunked_upload are
\* synchronous code on the caller's thread: once called they run on, every
\* POST returning a response, until they return or raise.
CallStep ==
    \/ chunk_begin
    \/ \E status \in Statuses, id \in UploadIds \cup {"none"} : chunk_post(status, id)
    \/ chunk_after

SpecFair == Init /\ [][Next]_vars /\ WF_vars(CallStep)

\* ----------------------------------------------------------- properties
Chunked == req.url = "fs-content-chunked"
Single == req.url = "fs-content"
ChunkCount == Len(chunks)
Ceil(a, b) == (a + b - 1) \div b
Budget == Max(upload_chunk_retries, 1)
ReadOps == {"read", "iter_lines", "iter_content"}

\* C1: when the checksum reported for chunk k differed from the chunk's digest
\* on each of max(maxRetries, 1) attempts, no further request is pending or
\* was issued (none for chunk k again, none for a later chunk), and the call
\* ends with the checksum error carrying chunk_number = k and
\* start_position = the offset of chunk k.
C1_ExhaustedChunkFails ==
    \A k \in 1..ChunkCount :
        mism[k] = Budget =>
            /\ tries[k] = Budget
            /\ pc \in {"after", "done"}
            /\ req.headers.chunk_num = k
            /\ \A j \in (k + 1)..ChunkCount : tries[j] = 0
            /\ pc = "done" =>
                  /\ result = "ChecksumError"
                  /\ errctx = [chunk_number |-> k,
                               start_position |-> (k - 1) * upload_chunk_size]

C1_Witness ==
    /\ pc = "done"
    /\ result = "ChecksumError"
    /\ ChunkCount = 3
    /\ upload_chunk_retries = 3
    /\ mism = <<0, 3, 0>>
    /\ errctx = [chunk_number |-> 2, start_position |-> upload_chunk_size]

\* The server behaviour of the scenario of C2, as far as a finished call has
\* met it: three chunks, maxRetries = 3, every status a success, every header
\* present, chunks 1 and 3 never mismatching, chunk 2 mismatching on its
\* attempts 1 and 2 and matching on attempt 3.
C2_Scenario ==
    /\ pc = "done"
    /\ Chunked \/ req = NoRequest
    /\ ChunkCount = 3
    /\ upload_chunk_retries = 3
    /\ seen = {}
    /\ chunk1_r.upload_id # "none"
    /\ mism[1] = 0
    /\ mism[3] = 0
    /\ mism[2] <= 2
    /\ tries[2] > mism[2] => mism[2] = 2

\* C2 as stated: in that scenario the upload succeeds with exactly 4 chunk
\* requests in total.
C2_Original == C2_Scenario => (result = "ok" /\ nreq = 4)

\* C2, amended: in that scenario the upload succeeds with exactly 5 chunk
\* requests in total: 1 for chunk 1, 3 for chunk 2, 1 for chunk 3.
C2_FiveRequests ==
    C2_Scenario => (result = "ok" /\ nreq = 5 /\ tries = <<1, 3, 1>>)

C2_Witness ==
    /\ C2_Scenario
    /\ result = "ok"
    /\ nreq = 5
    /\ mism = <<0, 2, 0>>

\* C3: once chunk 1 has succeeded (checksum match and success status), every
\* request for a chunk numbered 2 or more, retries included, carries the
\* upload id of chunk 1's final response, and the headers kept for the
\* requests to come hold that same value, whatever later responses contain.
C3_UploadIdFromChunk1 ==
    (pc \in {"for", "while", "after", "done"} /\ ChunkCount >= 2
        /\ verified[1] = "ok") =>
        /\ (Chunked /\ req.headers.chunk_num >= 2) =>
              /\ req.headers.upload_id = chunk1_r.upload_id
              /\ req.headers.upload_id # "none"
        /\ headers.upload_id # "none" => headers.upload_id = chunk1_r.upload_id
        /\ chunk_number >= 2 => headers.upload_id = chunk1_r.upload_id

C3_Witness ==
    /\ Chunked
    /\ req.headers.chunk_num = 3
    /\ tries[3] = 2
    /\ chunk1_r.upload_id = "idA"
    /\ r.upload_id = "idB"
    /\ req.headers.upload_id = "idA"

\* C4: a size at or above the threshold takes the chunked path; with no
\* mismatch, no failure status and no missing header the call ends in success
\* after exactly ceil(size / chunk size) requests, the i-th carrying chunk
\* number i; every chunk request carries the size of its chunk as content
\* length, and carries the last-chunk marker exactly when its chunk number
\* is ceil(size / chunk size).
C4_ChunkRequests ==
    LET n == Ceil(size, upload_chunk_size)
        clean == seen = {} /\ (\A k \in 1..ChunkCount : mism[k] = 0)
                    /\ (tries[1] > 0 => chunk1_r.upload_id # "none")
    IN  (pc \in {"for", "while", "after", "done"} /\ size >= upload_chunk_size) =>
            /\ ~Single
            /\ ChunkCount = n
            /\ Chunked =>
                  /\ req.headers.chunk_num \in 1..n
                  /\ req.headers.last_chunk <=> req.headers.chunk_num = n
                  /\ req.headers.content_length =
                        Min(upload_chunk_size,
                            size - (req.headers.chunk_num - 1) * upload_chunk_size)
            /\ (clean /\ Chunked) => req.headers.chunk_num = nreq
            /\ (clean /\ pc = "done") => (result = "ok" /\ nreq = n)

C4_Witness ==
    /\ pc = "done"
    /\ result = "ok"
    /\ size = 5
    /\ upload_chunk_size = 2
    /\ nreq = 3
    /\ tries = <<1, 1, 1>>
    /\ req.headers.chunk_num = 3
    /\ req.headers.content_length = 1
    /\ req.headers.last_chunk

\* C5: a size below the threshold is uploaded with exactly one POST to the
\* single-upload endpoint whose only header is Content-Length = size (no
\* chunk number, no last-chunk marker, no upload id); a size equal to the
\* threshold never goes that way.
C5_SingleShot ==
    /\ (pc \in {"for", "while", "after", "done"} /\ size < upload_chunk_size) =>
          /\ pc = "done"
          /\ nreq = 1
          /\ req.url = "fs-content"
          /\ req.headers = [EmptyHeaders EXCEPT !.content_length = size]
          /\ req.chunk = [position |-> 0, size |-> size]
    /\ Single => size < upload_chunk_size

C5_Witness ==
    /\ Single
    /\ size = upload_chunk_size - 1
    /\ nreq = 1
    /\ req.headers.content_length = size

\* C6 as stated: a call in which a request got a non-success status (every
\* response carrying its checksum header) ends with the transfer-failed
\* error, be it the single-shot upload, a chunked upload or the download.
C6_Original ==
    /\ (Single /\ r.status = "fail") => result = "TransferFailed"
    /\ (pc = "done" /\ Chunked /\ "fail" \in seen /\ "no_sha" \notin seen) =>
          result = "TransferFailed"
    /\ (dl.op = "download" /\ dl.status = "fail") => dl.outcome = "TransferFailed"

\* C6, amended: a non-success status ends the call with the transfer-failed
\* error, with no further request, when it comes on the single-shot request,
\* on the download request, or on a chunk attempt whose checksum matched; a
\* chunk attempt whose checksum differs is retried while the budget lasts,
\* whatever its status, and a chunk response without the checksum header ends
\* the call with a KeyError.
C6_StatusAfterMatch ==
    /\ (Single /\ r.status = "fail") =>
          (pc = "done" /\ result = "TransferFailed" /\ nreq = 1)
    /\ (dl.op = "download" /\ dl.status = "fail") =>
          (dl.outcome = "TransferFailed" /\ ~HasStream)
    /\ (Chunked /\ r.status = "fail" /\ r.sha = hexdigest(req.chunk)) =>
          /\ pc \in {"after", "done"}
          /\ pc = "done" => result = "TransferFailed"
          /\ chunk_number = req.headers.chunk_num
          /\ \A j \in (chunk_number + 1)..ChunkCount : tries[j] = 0
    /\ (Chunked /\ r.sha = CorruptSha(req.chunk) /\ mism[chunk_number] < Budget) =>
          pc = "while"
    /\ (Chunked /\ r.sha = <<>>) => (pc = "done" /\ result = "KeyError")

C6_Witness ==
    /\ pc = "done"
    /\ Chunked
    /\ result = "TransferFailed"
    /\ chunk_number = 2
    /\ tries[2] = 2
    /\ r.status = "fail"
    /\ r.sha = hexdigest(req.chunk)

\* C7: whenever a request for chunk n+1 has been issued, the most recent
\* response for chunk n had a matching checksum and a success status; and the
\* last request issued is always for the highest chunk requested so far, so
\* no request for chunk n follows one for chunk n+1.
C7_SequentialChunks ==
    (pc \in {"for", "while", "after", "done"} /\ ~Single) =>
        /\ \A n \in 1..(ChunkCount - 1) : tries[n + 1] > 0 => verified[n] = "ok"
        /\ \A k \in 1..ChunkCount : tries[k] > 0 => k <= req.headers.chunk_num

C7_Witness ==
    /\ pc = "while"
    /\ chunk_number = 3
    /\ tries = <<2, 3, 1>>
    /\ verified = <<"ok", "ok", "bad">>

\* C8: after write_to the response has been closed, whether the copy ran to
\* its end, the sink raised or the iteration raised, and the caller gets the
\* sink's or the iterator's error.
C8_WriteToCloses ==
    dl.op = "write_to" =>
        /\ response.closed
        /\ dl.close_calls >= 1
        /\ dl.outcome \in {"returned", "sink_error", "iter_error"}
        /\ dl.outcome = "returned" => response.remaining = 0 \/ dl.was_closed

C8_Witness ==
    /\ dl.op = "write_to"
    /\ dl.outcome = "sink_error"
    /\ dl.written = 1
    /\ ~dl.was_closed
    /\ response.closed

C10_SingleShotOutcome ==
    Single =>
        /\ pc = "done"
        /\ nreq = 1
        /\ r.status = "fail" => result = "TransferFailed"
        /\ (r.status = "ok" /\ r.sha = CorruptSha(req.chunk)) =>
              (result = "ChecksumError" /\ errctx = NoContext)
        /\ (r.status = "ok" /\ r.sha = hexdigest(req.chunk)) => result = "ok"

C10_Witness ==
    /\ Single
    /\ r.status = "fail"
    /\ r.sha = CorruptSha(req.chunk)
    /\ result = "TransferFailed"

DecimalValue(s) ==
    LET RECURSIVE Sum(_)
        Sum(i) == IF i > Len(s) THEN 0 ELSE s[i] * 10 ^ (Len(s) - i) + Sum(i + 1)
    IN  Sum(1)

\* C12: download issues one GET; a non-success status gives the
\* transfer-failed error and no stream, a success status gives an open stream
\* on that response; len() of the stream is the number its content-length
\* header denotes, and without the header it raises (KeyError) and gives no
\* number.
C12_DownloadAndLength ==
    /\ dl.op = "download" =>
          /\ dl.gets = 1
          /\ dl.status = "fail" => (dl.outcome = "TransferFailed" /\ ~HasStream)
          /\ dl.status = "ok" =>
                (dl.outcome = "stream" /\ response.status = "ok" /\ ~response.closed)
    /\ HasStream => response.status = "ok"
    /\ dl.op = "len" =>
          IF response.content_length = <<>>
          THEN dl.outcome = "KeyError" /\ dl.value = -1
          ELSE dl.outcome = "returned"
               /\ dl.value = DecimalValue(response.content_length)

C12_Witness ==
    /\ dl.op = "len"
    /\ response.content_length = <<1, 2>>
    /\ dl.outcome = "returned"
    /\ dl.value = 12

\* C13: in a chunked upload the checksum verdict comes before the status: the
\* call ends with the transfer-failed error only when the last attempt's
\* checksum matched and its status was a non-success, and a chunk whose budget
\* ran out on mismatches ends the call with the checksum error even when its
\* responses had non-success statuses.
C13_ChecksumBeforeStatus ==
    (pc = "done" /\ Chunked) =>
        /\ result = "TransferFailed" =>
              /\ r.sha = hexdigest(req.chunk)
              /\ r.status = "fail"
              /\ mism[chunk_number] < Budget
        /\ (r.sha = CorruptSha(req.chunk) /\ mism[chunk_number] = Budget) =>
              result = "ChecksumError"
        /\ result = "ChecksumError" => mism[chunk_number] = Budget

C13_Witness ==
    /\ pc = "done"
    /\ Chunked
    /\ result = "ChecksumError"
    /\ r.status = "fail"
    /\ r.sha = CorruptSha(req.chunk)
    /\ upload_chunk_retries = 2
    /\ mism[chunk_number] = 2

\* C14: whatever the retry setting, zero and negative included, a chunk is
\* posted at most max(maxRetries, 1) times and, once the call has reached its
\* verdict on it, at least once; a match stops the attempts for the chunk,
\* and a match on the last permitted attempt is a success, not a checksum
\* error.
C14_AttemptsPerChunk ==
    (pc \in {"for", "while", "after", "done"} /\ ~Single) =>
        /\ \A k \in 1..ChunkCount :
              /\ tries[k] <= Budget
              /\ (k < chunk_number \/ (k = chunk_number /\ pc \in {"after", "done"}))
                    => tries[k] >= 1
              /\ tries[k] <= mism[k] + 1
        /\ (Chunked /\ r.sha = hexdigest(req.chunk)
                /\ req.headers.chunk_num = chunk_number) =>
              /\ pc # "while"
              /\ result # "ChecksumError"
              /\ r.status = "ok" => result \in {"none", "ok", "KeyError"}

C14_Witness ==
    /\ pc = "done"
    /\ result = "ok"
    /\ upload_chunk_retries = 0
    /\ ChunkCount = 2
    /\ tries = <<1, 1>>
    /\ mism = <<0, 0>>

\* C15: a chunked upload returns success only when every chunk 1..N was
\* posted and the last response for each had the chunk's digest as checksum
\* and a success status.
C15_SuccessMeansAllVerified ==
    (pc = "done" /\ result = "ok" /\ ~Single) =>
        /\ ChunkCount = Ceil(size, upload_chunk_size)
        /\ \A k \in 1..Ceil(size, upload_chunk_size) :
              tries[k] >= 1 /\ verified[k] = "ok"
        /\ r.status = "ok"
        /\ r.sha = hexdigest(req.chunk)
        /\ req.headers.chunk_num = Ceil(size, upload_chunk_size)

C15_Witness ==
    /\ pc = "done"
    /\ result = "ok"
    /\ ChunkCount = 3
    /\ "fail" \in seen
    /\ mism = <<1, 0, 2>>
    /\ verified = <<"ok", "ok", "ok">>

\* C16: a single-shot upload is over after exactly 1 request and a chunked
\* upload of N chunks issues at most N * max(maxRetries, 1) requests; a call
\* whose responses all carried the headers the code reads ends in success, the
\* checksum error or the transfer-failed error; and every upload call under
\* way comes to its end, whatever the server answers.
C16_UploadTerminates ==
    /\ [](/\ Single => (pc = "done" /\ nreq = 1)
          /\ (pc \in {"for", "while", "after", "done"} /\ ~Single) =>
                /\ nreq <= Ceil(size, upload_chunk_size) * Budget
                /\ pc # "done" => result = "none"
          /\ (pc = "done" /\ "no_sha" \notin seen /\ (Single => r.sha # <<>>)
                /\ (Chunked => (verified[1] = "ok" => chunk1_r.upload_id # "none"))) =>
                result \in {"ok", "ChecksumError", "TransferFailed"})
    /\ (pc \in {"for", "while", "after"}) ~> (pc = "done")

C16_Witness ==
    /\ pc = "done"
    /\ result = "ChecksumError"
    /\ ChunkCount = 3
    /\ upload_chunk_retries = 3
    /\ nreq = 9
    /\ tries = <<3, 3, 3>>

\* C17: no request for chunk 1, first attempt or retry, carries an upload id,
\* also in a call made right after a chunked upload that captured one; the
\* headers hold an upload id only once chunk 1's last response matched with a
\* success status, and then it is that response's id.
C17_NoUploadIdOnChunk1 ==
    (pc \in {"for", "while", "after", "done"} /\ ~Single) =>
        /\ (Chunked /\ req.headers.chunk_num = 1) => req.headers.upload_id = "none"
        /\ (chunk_number = 1 /\ pc \in {"for", "while", "after"}) =>
              headers.upload_id = "none"
        /\ headers.upload_id # "none" =>
              (verified[1] = "ok" /\ headers.upload_id = chunk1_r.upload_id)

C17_Witness ==
    /\ prev_id = "idA"
    /\ Chunked
    /\ req.headers.chunk_num = 1
    /\ tries[1] = 2
    /\ req.headers.upload_id = "none"

\* C18: every attempt for a chunk is sent with the headers of the chunk's
\* first attempt, and the retry loop leaves the headers as they were sent;
\* the chunk number of a request is the 1-based index of the chunk it
\* carries and its content length is that chunk's size.
C18_SameHeadersPerChunk ==
    Chunked =>
        /\ req.headers = first.req.headers
        /\ req.chunk = first.req.chunk
        /\ (pc \in {"while", "after"} /\ tries[chunk_number] >= 1) =>
              headers = req.headers
        /\ req.headers.chunk_num \in 1..ChunkCount
        /\ req.chunk = chunks[req.headers.chunk_num]
        /\ req.chunk.position = (req.headers.chunk_num - 1) * upload_chunk_size
        /\ req.headers.content_length = req.chunk.size

C18_Witness ==
    /\ Chunked
    /\ req.headers.chunk_num = 3
    /\ tries[3] = 3
    /\ req.headers = first.req.headers
    /\ req.headers.last_chunk
    /\ req.headers.upload_id = "idB"
    /\ req.headers.content_length = 1
====
